---- MODULE Spec2Model ----
(***************************************************************************)
(* A model of src/main.py (semantic-csv-mapper): the heuristic classifier  *)
(* guess_label, the fallback labeler llm_label, the uniqueness resolver,   *)
(* the field normalizer normalize, the column ordering and the two sinks   *)
(* of main.                                                                *)
(*                                                                         *)
(* Text is modelled by TLA+ strings, read character by character with      *)
(* Len, SubSeq and \o.  A cell of a pandas column is a record: a string    *)
(* cell, a null (NaN) cell, or one of the typed cells that normalize       *)
(* produces (float, bool, datetime, NaT).  Columns are the object-dtype    *)
(* columns read_csv yields for text that is not wholly numeric.            *)
(* A float is kept exactly, as num / 10^exp with exp minimal; the rounding *)
(* of binary floating point is not modelled.                               *)
(***************************************************************************)
EXTENDS Integers, Sequences, FiniteSets, TLC

VARIABLES
    pc,          \* the position of main: the statement that runs next
    source,      \* the table in the file args.inp, as read_csv parses it
    api_key,     \* os.getenv("OPENAI_API_KEY"): "" when unset
    sqlite,      \* args.sqlite: "" when the option is not given
    df,          \* main's df
    mapping,     \* main's mapping, in insertion order: <<[col, label], ...>>
    base,        \* the value of the local `base` at each iteration of the loop
    report,      \* main's report: <<[col, label, reason], ...>>
    llm_failed,  \* the columns whose llm_label call did not yield a label
    clean,       \* main's clean
    csv_file,    \* the file args.out
    sql_table,   \* the table customers of the database args.sqlite
    error,       \* the call whose exception ended main, "" when none
    it,          \* the iterations the running loop of main has completed
    call         \* one call of a pure function: its arguments and its result

vars == <<pc, source, api_key, sqlite, df, mapping, base, report, llm_failed,
          clean, csv_file, sql_table, error, it, call>>

mainvars == <<pc, source, api_key, sqlite, df, mapping, base, report,
              llm_failed, clean, csv_file, sql_table, error, it>>

----------------------------------------------------------------------------
(* Bounds of the model. *)

MaxCols == 3      \* columns of a generated table
MaxRows == 2      \* rows of a generated table
MaxSample == 1    \* values of a column handed to guess_label on its own
MaxLen == 3       \* characters of a cell handed to normalize on its own

----------------------------------------------------------------------------
(* Characters and strings. *)

Range(f) == {f[i] : i \in DOMAIN f}

Char(s, i) == SubSeq(s, i, i)

Digits == {"0", "1", "2", "3", "4", "5", "6", "7", "8", "9"}

Upper == <<"A", "B", "C", "D", "E", "F", "G", "H", "I", "J", "K", "L", "M",
           "N", "O", "P", "Q", "R", "S", "T", "U", "V", "W", "X", "Y", "Z">>

LowerLetters == <<"a", "b", "c", "d", "e", "f", "g", "h", "i", "j", "k", "l", "m",
                  "n", "o", "p", "q", "r", "s", "t", "u", "v", "w", "x", "y", "z">>

\* The regular expressions' \s.
Whitespace == {" ", "\t", "\n", "\r", "\f"}

\* The regular expressions' \w.
IsWord(c) == c \in Range(LowerLetters) \cup Range(Upper) \cup Digits \cup {"_"}

IsDigit(c) == c \in Digits

LowerChar(c) ==
    IF c \in Range(Upper)
    THEN LowerLetters[CHOOSE i \in DOMAIN Upper : Upper[i] = c]
    ELSE c

RECURSIVE LowerFrom(_, _)
LowerFrom(s, i) ==
    IF i > Len(s) THEN "" ELSE LowerChar(Char(s, i)) \o LowerFrom(s, i + 1)

\* str.lower(), and the folding of re.I.
Lower(s) == LowerFrom(s, 1)

\* The literal lit occurs in s at position i.
At(s, i, lit) ==
    /\ i >= 1
    /\ i + Len(lit) - 1 <= Len(s)
    /\ SubSeq(s, i, i + Len(lit) - 1) = lit

Contains(s, lit) == \E i \in 1..Len(s) : At(s, i, lit)

\* The regular expressions' $ : the end of the string, or just before a
\* newline that ends it.
EndsAt(s, i) == i = Len(s) + 1 \/ (i = Len(s) /\ Char(s, i) = "\n")

\* a[_\s-]?b at position i.
SepChars == {"_", "-"} \cup Whitespace

AtSep(s, i, a, b) ==
    \/ At(s, i, a \o b)
    \/ \E c \in SepChars : At(s, i, a \o c \o b)

ContainsSep(s, a, b) == \E i \in 1..Len(s) : AtSep(s, i, a, b)

\* \bw\b for a literal w of word characters.
ContainsWord(s, w) ==
    \E i \in 1..Len(s) :
        /\ At(s, i, w)
        /\ i = 1 \/ ~IsWord(Char(s, i - 1))
        /\ i + Len(w) > Len(s) \/ ~IsWord(Char(s, i + Len(w)))

----------------------------------------------------------------------------
(* Cells. *)

Null == [kind |-> "null"]

Str(s) == [kind |-> "str", s |-> s]

Float(n, e) == [kind |-> "float", num |-> n, exp |-> e]

Bool(b) == [kind |-> "bool", b |-> b]

Datetime(y, m, d, H, M, S) ==
    [kind |-> "datetime", year |-> y, month |-> m, day |-> d,
     hour |-> H, minute |-> M, second |-> S]

NaT == [kind |-> "NaT"]

\* Series.astype(str), and str(x), of one cell: a null cell reads "nan".
AsStr(c) == IF c.kind = "null" THEN "nan" ELSE c.s

\* Series.dropna()
DropNa(series) == SelectSeq(series, LAMBDA c : c.kind # "null")

\* Series.head(n)
Head_(series, n) == SubSeq(series, 1, IF Len(series) < n THEN Len(series) ELSE n)

CharAt(s, i) == IF i >= 1 /\ i <= Len(s) THEN Char(s, i) ELSE ""

----------------------------------------------------------------------------
(* The registry: PATTERNS and STANDARD_ORDER. *)

\* None, for a label or a reason.
None == ""

PATTERNS == <<
    [label |-> "email",     pattern |-> "email|e-?mail"],
    [label |-> "fullName",  pattern |-> "^name$|full[_\\s-]?name"],
    [label |-> "firstName", pattern |-> "^first[_\\s-]?name|^fname$"],
    [label |-> "lastName",  pattern |-> "^last[_\\s-]?name|^lname$"],
    [label |-> "company",   pattern |-> "company|account|org(anization)?"],
    [label |-> "domain",    pattern |-> "domain|website|url"],
    [label |-> "mrr",       pattern |-> "\\bmrr\\b|monthly[-_\\s]?recurring"],
    [label |-> "arr",       pattern |-> "\\barr\\b|annual[-_\\s]?recurring"],
    [label |-> "plan",      pattern |-> "plan|tier|package"],
    [label |-> "nps",       pattern |-> "\\bnps\\b|net promoter"],
    [label |-> "churnFlag", pattern |-> "churn|cancel"],
    [label |-> "createdAt", pattern |-> "created|signup|joined|start"],
    [label |-> "lastSeen",  pattern |-> "last[_\\s-]?seen|last[_\\s-]?login|activity"],
    [label |-> "phone",     pattern |-> "phone|mobile|cell"],
    [label |-> "country",   pattern |-> "country"],
    [label |-> "state",     pattern |-> "state|province|region"],
    [label |-> "city",      pattern |-> "city|town"],
    [label |-> "zip",       pattern |-> "zip|postal"],
    [label |-> "uuid",      pattern |-> "uuid|id$|guid"],
    [label |-> "notes",     pattern |-> "notes?|comments?"] >>

\* pat.search(name) for the pattern of PATTERNS[i], compiled with re.I:
\* each regular expression written out over s, the lower-cased name.
SearchFolded(i, s) ==
    CASE i = 1  -> Contains(s, "email") \/ Contains(s, "e-mail")
      [] i = 2  -> (At(s, 1, "name") /\ EndsAt(s, 5)) \/ ContainsSep(s, "full", "name")
      [] i = 3  -> AtSep(s, 1, "first", "name")
                     \/ (At(s, 1, "fname") /\ EndsAt(s, 6))
      [] i = 4  -> AtSep(s, 1, "last", "name")
                     \/ (At(s, 1, "lname") /\ EndsAt(s, 6))
      [] i = 5  -> Contains(s, "company") \/ Contains(s, "account") \/ Contains(s, "org")
      [] i = 6  -> Contains(s, "domain") \/ Contains(s, "website") \/ Contains(s, "url")
      [] i = 7  -> ContainsWord(s, "mrr") \/ ContainsSep(s, "monthly", "recurring")
      [] i = 8  -> ContainsWord(s, "arr") \/ ContainsSep(s, "annual", "recurring")
      [] i = 9  -> Contains(s, "plan") \/ Contains(s, "tier") \/ Contains(s, "package")
      [] i = 10 -> ContainsWord(s, "nps") \/ Contains(s, "net promoter")
      [] i = 11 -> Contains(s, "churn") \/ Contains(s, "cancel")
      [] i = 12 -> Contains(s, "created") \/ Contains(s, "signup")
                     \/ Contains(s, "joined") \/ Contains(s, "start")
      [] i = 13 -> ContainsSep(s, "last", "seen") \/ ContainsSep(s, "last", "login")
                     \/ Contains(s, "activity")
      [] i = 14 -> Contains(s, "phone") \/ Contains(s, "mobile") \/ Contains(s, "cell")
      [] i = 15 -> Contains(s, "country")
      [] i = 16 -> Contains(s, "state") \/ Contains(s, "province") \/ Contains(s, "region")
      [] i = 17 -> Contains(s, "city") \/ Contains(s, "town")
      [] i = 18 -> Contains(s, "zip") \/ Contains(s, "postal")
      [] i = 19 -> Contains(s, "uuid") \/ Contains(s, "guid")
                     \/ \E k \in 1..Len(s) : At(s, k, "id") /\ EndsAt(s, k + 2)
      [] i = 20 -> Contains(s, "note") \/ Contains(s, "comment")

Search(i, name) == SearchFolded(i, Lower(name))

\* The mutant that declares mrr and arr before plan.
STANDARD_ORDER_plan_last ==
    <<"uuid", "email", "fullName", "firstName", "lastName", "company", "domain",
      "mrr", "arr", "plan", "nps", "churnFlag",
      "createdAt", "lastSeen", "phone", "country", "state", "city", "zip", "notes", "other">>

STANDARD_ORDER == <<
    "uuid", "email", "fullName", "firstName", "lastName", "company", "domain",
    "plan", "mrr", "arr", "nps", "churnFlag",
    "createdAt", "lastSeen", "phone", "country", "state", "city", "zip", "notes", "other" >>

----------------------------------------------------------------------------
(* guess_label *)

\* re.search(r"\$\s?\d|\d+\.\d{2}", v)
CurrencyHint(v) ==
    \E i \in 1..Len(v) :
        \/ /\ Char(v, i) = "$"
           /\ \/ IsDigit(CharAt(v, i + 1))
              \/ CharAt(v, i + 1) \in Whitespace /\ IsDigit(CharAt(v, i + 2))
        \/ /\ IsDigit(Char(v, i))
           /\ CharAt(v, i + 1) = "."
           /\ IsDigit(CharAt(v, i + 2))
           /\ IsDigit(CharAt(v, i + 3))

\* re.search(r"\d{4}-\d{2}-\d{2}", v)
DateHint(v) ==
    \E i \in 1..Len(v) :
        /\ \A k \in 0..3 : IsDigit(CharAt(v, i + k))
        /\ CharAt(v, i + 4) = "-"
        /\ \A k \in 5..6 : IsDigit(CharAt(v, i + k))
        /\ CharAt(v, i + 7) = "-"
        /\ \A k \in 8..9 : IsDigit(CharAt(v, i + k))

SampleSize == 20

\* series.dropna().astype(str).head(20).tolist()
Sample(series) ==
    LET s == Head_(DropNa(series), SampleSize) IN [i \in DOMAIN s |-> AsStr(s[i])]

\* The value hints of guess_label, consulted when no pattern matches.
ValueHints(series) ==
    LET sample == Sample(series) IN
    IF \E k \in DOMAIN sample : Contains(sample[k], "@")
    THEN [label |-> "email", reason |-> "value hint '@'"]
    ELSE IF \E k \in DOMAIN sample : CurrencyHint(sample[k])
    THEN [label |-> "mrr", reason |-> "value hint currency"]
    ELSE IF \E k \in DOMAIN sample : DateHint(sample[k])
    THEN [label |-> "createdAt", reason |-> "value hint date"]
    ELSE [label |-> None, reason |-> None]

\* The mutant of guess_label that consults the value hints before the patterns.
guess_label_values_first(name, series) ==
    LET hint == ValueHints(series)
        hits == {i \in DOMAIN PATTERNS : Search(i, name)}
    IN  IF hint.label # None THEN hint
        ELSE IF hits = {} THEN hint
        ELSE LET i == CHOOSE i \in hits : \A j \in hits : i <= j
             IN  [label |-> PATTERNS[i].label,
                  reason |-> "matched pattern " \o PATTERNS[i].pattern]

RECURSIVE FirstMatch(_, _)
\* The loop over PATTERNS from index i: the first pattern that matches s,
\* the lower-cased name; 0 if none does.
FirstMatch(s, i) ==
    IF i > Len(PATTERNS) THEN 0
    ELSE IF SearchFolded(i, s) THEN i
    ELSE FirstMatch(s, i + 1)

guess_label(name, series) ==
    LET i == FirstMatch(Lower(name), 1) IN
    IF i # 0
    THEN [label |-> PATTERNS[i].label,
          reason |-> "matched pattern " \o PATTERNS[i].pattern]
    ELSE ValueHints(series)

----------------------------------------------------------------------------
(* normalize: the currency rule. *)

DigitVal(c) == CHOOSE n \in 0..9 : ToString(n) = c

RECURSIVE KeepFrom(_, _, _)
KeepFrom(s, i, keep) ==
    IF i > Len(s) THEN ""
    ELSE (IF Char(s, i) \in keep THEN Char(s, i) ELSE "") \o KeepFrom(s, i + 1, keep)

\* str.replace(r"[^\d.]", "", regex=True) of one value
StripNonNumeric(s) == KeepFrom(s, 1, Digits \cup {"."})

RECURSIVE ToInt(_, _)
\* The integer the digits s[1..i] write.
ToInt(s, i) == IF i = 0 THEN 0 ELSE 10 * ToInt(s, i - 1) + DigitVal(Char(s, i))

RECURSIVE Reduce(_, _)
Reduce(n, e) == IF e > 0 /\ n % 10 = 0 THEN Reduce(n \div 10, e - 1) ELSE Float(n, e)

Count(s, c) == Cardinality({i \in 1..Len(s) : Char(s, i) = c})

\* float(s) accepts s, a string of digits and points: at most one point and
\* at least one digit.
FloatOk(s) == Count(s, ".") <= 1 /\ Len(s) - Count(s, ".") >= 1

\* float(s) for such a string.
ParseFloat(s) ==
    LET ds == KeepFrom(s, 1, Digits)
        p  == IF Count(s, ".") = 0 THEN Len(s) + 1
              ELSE CHOOSE i \in 1..Len(s) : Char(s, i) = "."
    IN  Reduce(ToInt(ds, Len(ds)), Len(s) - p + (IF p > Len(s) THEN 1 ELSE 0))

\* One value through astype(str), str.replace and replace("", "0").
CurrencyText(c) ==
    LET t == StripNonNumeric(AsStr(c)) IN IF t = "" THEN "0" ELSE t

----------------------------------------------------------------------------
(* normalize: the boolean rule. *)

TruthTable ==
    [s \in {"true", "yes", "1", "cancel", "false", "no", "0", "active"} |->
        s \in {"true", "yes", "1", "cancel"}]

\* astype(str).str.lower().map(table).fillna(False) of one value
ChurnValue(c) ==
    LET s == Lower(AsStr(c)) IN
    IF s \in DOMAIN TruthTable THEN Bool(TruthTable[s]) ELSE Bool(FALSE)

----------------------------------------------------------------------------
(* normalize: the datetime rule, datetime.strptime over three formats. *)

Formats == <<
    <<"Y", "-", "m", "-", "d">>,
    <<"m", "/", "d", "/", "Y">>,
    <<"Y", "-", "m", "-", "d", " ", "H", ":", "M", ":", "S">> >>

NoField == [ok |-> FALSE, val |-> 0, next |-> 0]

\* The directive f of a format at position i of s: the value it reads and
\* the position after it.  A directive of one or two digits reads two when
\* the two are a value of its range.
Field(f, s, i) ==
    LET a == CharAt(s, i)
        b == CharAt(s, i + 1)
        two == IsDigit(a) /\ IsDigit(b)
        v2 == IF two THEN 10 * DigitVal(a) + DigitVal(b) ELSE 0
        one == [ok |-> IsDigit(a), val |-> IF IsDigit(a) THEN DigitVal(a) ELSE 0,
                next |-> i + 1]
        pair == [ok |-> TRUE, val |-> v2, next |-> i + 2]
    IN  CASE f = "Y" ->
               IF \A k \in 0..3 : IsDigit(CharAt(s, i + k))
               THEN [ok |-> TRUE, val |-> ToInt(SubSeq(s, i, i + 3), 4), next |-> i + 4]
               ELSE NoField
          [] f = "m" ->
               IF two /\ v2 \in 1..12 THEN pair
               ELSE IF one.ok /\ one.val >= 1 THEN one ELSE NoField
          [] f = "d" ->
               IF two /\ v2 \in 1..31 THEN pair
               ELSE IF one.ok /\ one.val >= 1 THEN one
               ELSE IF a = " " /\ IsDigit(b) /\ b # "0"
                    THEN [ok |-> TRUE, val |-> DigitVal(b), next |-> i + 2]
               ELSE NoField
          [] f = "H" -> IF two /\ v2 \in 0..23 THEN pair ELSE one
          [] f = "M" -> IF two /\ v2 \in 0..59 THEN pair ELSE one
          [] f = "S" -> IF two /\ v2 \in 0..61 THEN pair ELSE one

RECURSIVE SkipSpace(_, _)
SkipSpace(s, i) == IF CharAt(s, i) \in Whitespace THEN SkipSpace(s, i + 1) ELSE i

NoFields == [Y |-> 0, m |-> 0, d |-> 0, H |-> 0, M |-> 0, S |-> 0]

RECURSIVE Parse(_, _, _, _, _)
\* The items fmt[k..] of a format matched against s from position i; got
\* holds the fields read so far.  The whole of s must be consumed.
Parse(s, i, fmt, k, got) ==
    IF k > Len(fmt) THEN [ok |-> i = Len(s) + 1, got |-> got]
    ELSE IF fmt[k] \in {"-", "/", ":"}
    THEN IF CharAt(s, i) = fmt[k] THEN Parse(s, i + 1, fmt, k + 1, got)
         ELSE [ok |-> FALSE, got |-> got]
    ELSE IF fmt[k] = " "
    THEN IF CharAt(s, i) \in Whitespace
         THEN Parse(s, SkipSpace(s, i), fmt, k + 1, got)
         ELSE [ok |-> FALSE, got |-> got]
    ELSE LET r == Field(fmt[k], s, i) IN
         IF r.ok THEN Parse(s, r.next, fmt, k + 1, [got EXCEPT ![fmt[k]] = r.val])
         ELSE [ok |-> FALSE, got |-> got]

IsLeap(y) == y % 4 = 0 /\ (y % 100 # 0 \/ y % 400 = 0)

DaysIn(y, m) ==
    IF m = 2 THEN (IF IsLeap(y) THEN 29 ELSE 28)
    ELSE IF m \in {4, 6, 9, 11} THEN 30 ELSE 31

\* datetime.strptime(s, fmt): a datetime, or a ValueError (ok = FALSE).
Strptime(s, fmt) ==
    LET r == Parse(s, 1, fmt, 1, [NoFields EXCEPT !.m = 1, !.d = 1])
        g == r.got
        valid == r.ok /\ g.Y >= 1 /\ g.d <= DaysIn(g.Y, g.m) /\ g.S <= 59
    IN  [ok |-> valid,
         val |-> IF valid THEN Datetime(g.Y, g.m, g.d, g.H, g.M, g.S) ELSE NaT]

RECURSIVE TryFormats(_, _)
TryFormats(s, k) ==
    IF k > Len(Formats) THEN NaT
    ELSE LET r == Strptime(s, Formats[k]) IN
         IF r.ok THEN r.val ELSE TryFormats(s, k + 1)

\* normalize's _p
ParseDate(c) == TryFormats(AsStr(c), 1)

----------------------------------------------------------------------------
(* normalize *)

Raised == [ok |-> FALSE, values |-> <<>>]

Returned(values) == [ok |-> TRUE, values |-> values]

\* normalize(label, series): the series it returns, or the ValueError that
\* astype(float) raises when one value is no float.
normalize(label, series) ==
    IF label \in {"mrr", "arr"}
    THEN IF \A i \in DOMAIN series : FloatOk(CurrencyText(series[i]))
         THEN Returned([i \in DOMAIN series |-> ParseFloat(CurrencyText(series[i]))])
         ELSE Raised
    ELSE IF label = "churnFlag"
    THEN Returned([i \in DOMAIN series |-> ChurnValue(series[i])])
    ELSE IF label \in {"createdAt", "lastSeen"}
    THEN Returned([i \in DOMAIN series |-> ParseDate(series[i])])
    ELSE Returned(series)

----------------------------------------------------------------------------
(* Frames, and main's dict. *)

EmptyFrame == [columns |-> <<>>, data |-> <<>>]

\* frame[name] = values: a new column is appended, an old one is overwritten
\* in place.
SetColumn(frame, name, values) ==
    [columns |-> IF name \in Range(frame.columns) THEN frame.columns
                 ELSE Append(frame.columns, name),
     data |-> [n \in DOMAIN frame.data \cup {name} |->
                  IF n = name THEN values ELSE frame.data[n]]]

\* mapping.values()
Values(m) == {m[k].label : k \in DOMAIN m}

\* mapping[col] = label
DictSet(m, col, label) ==
    IF \E k \in DOMAIN m : m[k].col = col
    THEN [k \in DOMAIN m |-> IF m[k].col = col THEN [col |-> col, label |-> label] ELSE m[k]]
    ELSE Append(m, [col |-> col, label |-> label])

----------------------------------------------------------------------------
(* llm_label *)

\* The labels the service answers with in this model.
LlmLabels == {"plan", "plan_2", "mrr", "other"}

\* What a call of llm_label(column_name, sample_values, api_key) can do:
\* return a pair, or let an exception out; the answer of the service is any
\* of the answers of the model, whatever the prompt.  The import of openai and the
\* construction of the client stand before the try; the request and the
\* parsing of its answer stand inside it.
llm_label(column_name, sample_values, api_key_) ==
    IF api_key_ = ""
    THEN {[raised |-> FALSE, failed |-> FALSE, label |-> None, reason |-> None]}
    ELSE  \* from openai import OpenAI; client = OpenAI(api_key=api_key) raises
          {[raised |-> TRUE, failed |-> TRUE, label |-> None, reason |-> None]}
          \cup  \* the request or json.loads raises: except Exception
          {[raised |-> FALSE, failed |-> TRUE, label |-> None, reason |-> None]}
          \cup  \* a JSON object without a label
          {[raised |-> FALSE, failed |-> TRUE, label |-> None, reason |-> "no idea"]}
          \cup  \* a JSON object with a label
          {[raised |-> FALSE, failed |-> FALSE, label |-> l, reason |-> "llm"] :
              l \in LlmLabels}

----------------------------------------------------------------------------
(* The uniqueness loop of main. *)

\* f"{base}_{i}"
Suffixed(base_, i) == base_ \o "_" \o ToString(i)

RECURSIVE UniqueFrom(_, _, _, _)
\* while label in mapping.values(): label = f"{base}_{i}"; i += 1
UniqueFrom(label, base_, i, taken) ==
    IF label \in taken THEN UniqueFrom(Suffixed(base_, i), base_, i + 1, taken)
    ELSE label

\* The mutant that suffixes once, without looking at the result.
UniqueLabel_once(label, taken) ==
    IF label \in taken THEN Suffixed(label, 2) ELSE label

\* The mutant that starts the suffixes at 3.
UniqueLabel_from3(label, taken) == UniqueFrom(label, label, 3, taken)

\* base = label; i = 2; the loop
UniqueLabel(label, taken) == UniqueFrom(label, label, 2, taken)

----------------------------------------------------------------------------
(* The column order of the output. *)

\* The mutant that keeps the columns in the order of the input.
Order_as_input(columns) == columns

\* [c for c in STANDARD_ORDER if c in clean.columns] +
\* [c for c in clean.columns if c not in STANDARD_ORDER]
Order(columns) ==
    SelectSeq(STANDARD_ORDER, LAMBDA c : c \in Range(columns))
    \o SelectSeq(columns, LAMBDA c : c \notin Range(STANDARD_ORDER))

----------------------------------------------------------------------------
(* The tables main is run on. *)

ScenarioHeader == <<"Full Name", "E-mail", "Signup Date", "MRR">>

\* The names of the generated tables' columns.
NamePool == {"E-mail", "MRR", "Plan", "plan_type", "foo"}

AllNames == NamePool \cup Range(ScenarioHeader)

\* The rows of the pool; a table holds consecutive rows of it.
RowPool == <<
    [n \in AllNames |->
        CASE n = "Full Name"   -> Str("Jane Doe")
          [] n = "E-mail"      -> Str("jane@x.com")
          [] n = "Signup Date" -> Str("2023-01-05")
          [] n = "MRR"         -> Str("$120.00")
          [] n = "Plan"        -> Str("pro")
          [] n = "plan_type"   -> Str("annual")
          [] n = "foo"         -> Str("x")],
    [n \in AllNames |->
        CASE n = "Full Name"   -> Str("John Roe")
          [] n = "E-mail"      -> Str("john@y.org")
          [] n = "Signup Date" -> Str("01/05/2023")
          [] n = "MRR"         -> Str("$1,2x0")
          [] n = "Plan"        -> Str("free")
          [] n = "plan_type"   -> Null
          [] n = "foo"         -> Str("$5")],
    [n \in AllNames |->
        CASE n = "Full Name"   -> Null
          [] n = "E-mail"      -> Str("n/a")
          [] n = "Signup Date" -> Str("not-a-date")
          [] n = "MRR"         -> Str("1.2.3")
          [] n = "Plan"        -> Str("pro")
          [] n = "plan_type"   -> Str("monthly")
          [] n = "foo"         -> Null] >>

RECURSIVE InjSeqs(_, _)
\* The sequences of at most n distinct elements of S.
InjSeqs(S, n) ==
    IF n = 0 THEN {<<>>}
    ELSE LET shorter == InjSeqs(S, n - 1) IN
         shorter \cup UNION {{Append(s, x) : x \in S \ Range(s)} : s \in shorter}

\* read_csv gives every column a name of its own.
Headers == (InjSeqs(NamePool, MaxCols) \ {<<>>}) \cup {ScenarioHeader}

\* The table with the columns header and the rows first..first+n-1 of the pool.
Table(header, first, n) ==
    [columns |-> header,
     data |-> [c \in Range(header) |-> [r \in 1..n |-> RowPool[first + r - 1][c]]]]

\* The windows of the row pool: the first row and the number of rows.
Windows ==
    {w \in (DOMAIN RowPool) \X (1..MaxRows) : w[1] + w[2] - 1 <= Len(RowPool)}

Tables == {Table(h, w[1], w[2]) : h \in Headers, w \in Windows}

NRows(frame) == IF frame.columns = <<>> THEN 0 ELSE Len(frame.data[frame.columns[1]])

----------------------------------------------------------------------------
(* main *)

NoOutput == [written |-> FALSE, table |-> EmptyFrame]

Written(frame) == [written |-> TRUE, table |-> frame]

Init ==
    /\ pc = "read_csv"
    /\ source \in Tables
    /\ api_key \in {"", "sk-key"}
    /\ sqlite \in {"", "out.db"}
    /\ df = EmptyFrame
    /\ mapping = <<>>
    /\ base = <<>>
    /\ report = <<>>
    /\ llm_failed = {}
    /\ clean = EmptyFrame
    /\ csv_file = NoOutput
    /\ sql_table = NoOutput
    /\ error = ""
    /\ it = 0
    /\ call = [fn |-> "main"]

\* An exception leaves main from the call named by what.
Raise(what) ==
    /\ pc' = "failed"
    /\ error' = what

\* df = pd.read_csv(args.inp); api_key = os.getenv("OPENAI_API_KEY")
ReadCsv ==
    /\ pc = "read_csv"
    /\ df' = source
    /\ pc' = "classify"
    /\ UNCHANGED <<source, api_key, sqlite, mapping, base, report, llm_failed,
                   clean, csv_file, sql_table, error, it, call>>

\* The source cannot be read.
ReadCsvRaises ==
    /\ pc = "read_csv"
    /\ Raise("read_csv")
    /\ UNCHANGED <<source, api_key, sqlite, df, mapping, base, report, llm_failed,
                   clean, csv_file, sql_table, it, call>>

\* The column of the running iteration of `for col in df.columns`.
Col == df.columns[it + 1]

\* df[col].astype(str).dropna().tolist()
SampleValues == [r \in DOMAIN df.data[Col] |-> AsStr(df.data[Col][r])]

\* The end of one iteration of the first loop: the label is made unique,
\* and stored in mapping and report.
Assign(label, reason) ==
    LET final == UniqueLabel(label, Values(mapping)) IN
    /\ base' = Append(base, label)
    /\ mapping' = DictSet(mapping, Col, final)
    /\ report' = Append(report, [col |-> Col, label |-> final, reason |-> reason])
    /\ it' = IF it + 1 = Len(df.columns) THEN 0 ELSE it + 1
    /\ pc' = IF it + 1 = Len(df.columns) THEN "normalize" ELSE "classify"
    /\ UNCHANGED <<source, api_key, sqlite, df, clean, csv_file, sql_table, error, call>>

\* One iteration: guess_label finds a label.
ClassifyHeuristic ==
    /\ pc = "classify"
    /\ LET g == guess_label(Col, df.data[Col]) IN
       /\ g.label # None
       /\ Assign(g.label, g.reason)
    /\ UNCHANGED llm_failed

\* One iteration: guess_label abstains and there is no api_key.
ClassifyDefault ==
    /\ pc = "classify"
    /\ guess_label(Col, df.data[Col]).label = None
    /\ api_key = ""
    /\ Assign("other", "no match")
    /\ UNCHANGED llm_failed

\* One iteration: guess_label abstains and llm_label returns.
ClassifyFallback ==
    /\ pc = "classify"
    /\ guess_label(Col, df.data[Col]).label = None
    /\ api_key # ""
    /\ \E r \in llm_label(Col, SampleValues, api_key) :
          /\ ~r.raised
          /\ Assign(IF r.label # None THEN r.label ELSE "other",
                    IF r.reason # None THEN r.reason ELSE "LLM fallback")
          /\ llm_failed' = IF r.failed THEN llm_failed \cup {Col} ELSE llm_failed

\* One iteration: guess_label abstains and llm_label lets an exception out.
ClassifyFallbackRaises ==
    /\ pc = "classify"
    /\ guess_label(Col, df.data[Col]).label = None
    /\ api_key # ""
    /\ \E r \in llm_label(Col, SampleValues, api_key) :
          /\ r.raised
          /\ llm_failed' = llm_failed \cup {Col}
    /\ Raise("llm_label")
    /\ UNCHANGED <<source, api_key, sqlite, df, mapping, base, report,
                   clean, csv_file, sql_table, it, call>>

\* One iteration of `for src, dst in mapping.items()`:
\* clean[dst] = normalize(dst, df[src])
NormalizeColumn ==
    /\ pc = "normalize"
    /\ LET item == mapping[it + 1]
           r == normalize(item.label, df.data[item.col])
       IN  /\ r.ok
           /\ clean' = SetColumn(clean, item.label, r.values)
    /\ it' = IF it + 1 = Len(mapping) THEN 0 ELSE it + 1
    /\ pc' = IF it + 1 = Len(mapping) THEN "order" ELSE "normalize"
    /\ UNCHANGED <<source, api_key, sqlite, df, mapping, base, report, llm_failed,
                   csv_file, sql_table, error, call>>

\* One iteration: normalize raises.
NormalizeRaises ==
    /\ pc = "normalize"
    /\ LET item == mapping[it + 1] IN ~normalize(item.label, df.data[item.col]).ok
    /\ Raise("normalize")
    /\ UNCHANGED <<source, api_key, sqlite, df, mapping, base, report, llm_failed,
                   clean, csv_file, sql_table, it, call>>

\* order = ...; clean = clean[order]
Reorder ==
    /\ pc = "order"
    /\ clean' = [columns |-> Order(clean.columns), data |-> clean.data]
    /\ pc' = "to_csv"
    /\ UNCHANGED <<source, api_key, sqlite, df, mapping, base, report, llm_failed,
                   csv_file, sql_table, error, it, call>>

\* clean.to_csv(args.out, index=False)
ToCsv ==
    /\ pc = "to_csv"
    /\ csv_file' = Written(clean)
    /\ pc' = IF sqlite # "" THEN "to_sql" ELSE "print"
    /\ UNCHANGED <<source, api_key, sqlite, df, mapping, base, report, llm_failed,
                   clean, sql_table, error, it, call>>

\* args.out cannot be written.
ToCsvRaises ==
    /\ pc = "to_csv"
    /\ Raise("to_csv")
    /\ UNCHANGED <<source, api_key, sqlite, df, mapping, base, report, llm_failed,
                   clean, csv_file, sql_table, it, call>>

\* sqlite3.connect, clean.to_sql("customers", conn, if_exists="replace"), close
ToSql ==
    /\ pc = "to_sql"
    /\ sql_table' = Written(clean)
    /\ pc' = "print"
    /\ UNCHANGED <<source, api_key, sqlite, df, mapping, base, report, llm_failed,
                   clean, csv_file, error, it, call>>

\* The database cannot be opened or written.
ToSqlRaises ==
    /\ pc = "to_sql"
    /\ Raise("to_sql")
    /\ UNCHANGED <<source, api_key, sqlite, df, mapping, base, report, llm_failed,
                   clean, csv_file, sql_table, it, call>>

\* The report is printed and main returns.
PrintReport ==
    /\ pc = "print"
    /\ pc' = "done"
    /\ UNCHANGED <<source, api_key, sqlite, df, mapping, base, report, llm_failed,
                   clean, csv_file, sql_table, error, it, call>>

Next ==
    \/ ReadCsv
    \/ ReadCsvRaises
    \/ ClassifyHeuristic
    \/ ClassifyDefault
    \/ ClassifyFallback
    \/ ClassifyFallbackRaises
    \/ NormalizeColumn
    \/ NormalizeRaises
    \/ Reorder
    \/ ToCsv
    \/ ToCsvRaises
    \/ ToSql
    \/ ToSqlRaises
    \/ PrintReport

Spec == Init /\ [][Next]_vars

----------------------------------------------------------------------------
(* guess_label called on its own: one name, two columns of values. *)

Idle ==
    /\ pc = "idle"
    /\ source = EmptyFrame
    /\ api_key = ""
    /\ sqlite = ""
    /\ df = EmptyFrame
    /\ mapping = <<>>
    /\ base = <<>>
    /\ report = <<>>
    /\ llm_failed = {}
    /\ clean = EmptyFrame
    /\ csv_file = NoOutput
    /\ sql_table = NoOutput
    /\ error = ""
    /\ it = 0

GuessNames ==
    {"E-mail", "company_email", "Full Name", "MRR", "mrr_usd", "Plan",
     "user_id", "Signup Date", "Paid", "Comments", "foo", "Amount"}

GuessValues == {Null, Str("x"), Str("a@b.c"), Str("$5.00"), Str("2023-01-05")}

RECURSIVE SeqsUpTo(_, _)
\* The sequences of at most n elements of S.
SeqsUpTo(S, n) ==
    IF n = 0 THEN {<<>>}
    ELSE LET shorter == SeqsUpTo(S, n - 1) IN
         shorter \cup {Append(s, x) : s \in shorter, x \in S}

NoLabel == [label |-> None, reason |-> None]

InitGuess ==
    /\ Idle
    /\ \E n \in GuessNames, s1, s2 \in SeqsUpTo(GuessValues, MaxSample) :
          call = [fn |-> "guess_label", name |-> n, series |-> s1, other |-> s2,
                  returned |-> FALSE, ret |-> NoLabel, other_ret |-> NoLabel]

\* guess_label(name, series) and guess_label(name, other)
GuessLabelCall ==
    /\ call.fn = "guess_label"
    /\ ~call.returned
    /\ call' = [call EXCEPT !.returned = TRUE,
                            !.ret = guess_label(call.name, call.series),
                            !.other_ret = guess_label(call.name, call.other)]
    /\ UNCHANGED mainvars

SpecGuess == InitGuess /\ [][GuessLabelCall]_vars

----------------------------------------------------------------------------
(* normalize called on its own, on a column of one cell, with a currency   *)
(* label.                                                                  *)

CurrencyAlphabet == {"1", "0", ".", "$", ","}

RECURSIVE Strings(_)
\* The strings of at most n characters of the alphabet.
Strings(n) ==
    IF n = 0 THEN {""}
    ELSE LET shorter == Strings(n - 1) IN
         shorter \cup {s \o c : s \in shorter, c \in CurrencyAlphabet}

CurrencyTexts == Strings(MaxLen) \cup {"$120.00", "120.50", "$1,2x0", "1.2.3"}

InitNorm ==
    /\ Idle
    /\ \E l \in {"mrr", "arr"}, c \in {Str(s) : s \in CurrencyTexts} \cup {Null} :
          call = [fn |-> "normalize", label |-> l, series |-> <<c>>,
                  returned |-> FALSE, ret |-> Returned(<<>>)]

\* normalize(label, series)
NormalizeCall ==
    /\ call.fn = "normalize"
    /\ ~call.returned
    /\ call' = [call EXCEPT !.returned = TRUE,
                            !.ret = normalize(call.label, call.series)]
    /\ UNCHANGED mainvars

SpecNorm == InitNorm /\ [][NormalizeCall]_vars

----------------------------------------------------------------------------
(* The properties. *)

\* The final labels of the columns classified so far, in input order.
Labels == [k \in DOMAIN mapping |-> mapping[k].label]

\* The output has been put in order: main is at or past clean.to_csv.
Assembled ==
    \/ pc \in {"to_csv", "to_sql", "print", "done"}
    \/ pc = "failed" /\ error \in {"to_csv", "to_sql"}

\* The position of x in the sequence s of distinct elements.
Pos(s, x) == CHOOSE i \in DOMAIN s : s[i] = x

\* C1: at every point of the classification loop and after it, the final
\* labels assigned to the columns are pairwise distinct, whatever labels the
\* classifier, the fallback labeler and the default proposed.
C1_LabelsDistinct ==
    /\ \A i, j \in DOMAIN mapping : i # j => mapping[i].label # mapping[j].label
    /\ \A i, j \in DOMAIN report : i # j => report[i].label # report[j].label
    /\ Len(mapping) = Len(base)

\* C1 witness: the loop has ended on a table of three columns that all
\* proposed the same label.
C1_Witness ==
    /\ pc = "normalize"
    /\ Len(base) = 3
    /\ base[1] = base[2] /\ base[2] = base[3]

\* C2 as claimed: once a table has been read and main has ended, there is
\* one report entry and one output column for each input column, and every
\* output column holds one row for each input row.
C2_Claimed ==
    (pc \in {"done", "failed"} /\ error # "read_csv") =>
        /\ Len(report) = Len(df.columns)
        /\ Len(clean.columns) = Len(df.columns)
        /\ \A c \in Range(clean.columns) : Len(clean.data[c]) = NRows(df)

\* The registry order as the claim C3 gives it.
ClaimedOrder ==
    <<"uuid", "email", "fullName", "firstName", "lastName", "company", "domain",
      "mrr", "arr", "plan", "nps", "churnFlag",
      "createdAt", "lastSeen", "phone", "country", "state", "city", "zip", "notes", "other">>

\* The registry order of the amended C3.
AmendedOrder ==
    <<"uuid", "email", "fullName", "firstName", "lastName", "company", "domain",
      "plan", "mrr", "arr", "nps", "churnFlag",
      "createdAt", "lastSeen", "phone", "country", "state", "city", "zip", "notes", "other">>

\* The output columns are the final labels, those of the registry first and
\* in the order of registry, the others after them in input order.
OrderedBy(registry) ==
    LET cols == clean.columns IN
    /\ Len(cols) = Len(mapping)
    /\ Range(cols) = Range(Labels)
    /\ \A i, j \in DOMAIN cols :
          i < j =>
            /\ (cols[i] \in Range(registry) /\ cols[j] \in Range(registry))
                  => Pos(registry, cols[i]) < Pos(registry, cols[j])
            /\ cols[i] \notin Range(registry) => cols[j] \notin Range(registry)
            /\ (cols[i] \notin Range(registry) /\ cols[j] \notin Range(registry))
                  => Pos(Labels, cols[i]) < Pos(Labels, cols[j])

\* C3 as claimed: in the assembled output the registry columns stand in the
\* order uuid, ..., domain, mrr, arr, plan, nps, ..., other, and the other
\* columns follow in input order.
C3_Claimed == Assembled => OrderedBy(ClaimedOrder)

\* C3 amended: in the assembled output the registry columns stand in the
\* order uuid, ..., domain, plan, mrr, arr, nps, ..., other (a plan column
\* precedes an mrr or arr column), and the other columns follow in input order.
C3_Amended == Assembled => OrderedBy(AmendedOrder)

\* C3 witness: an assembled output with a plan column, an mrr column and a
\* column outside the registry.
C3_Witness ==
    /\ Assembled
    /\ {"plan", "mrr"} \subseteq Range(clean.columns)
    /\ \E c \in Range(clean.columns) : c \notin Range(AmendedOrder)

\* The table of the end-to-end scenario, run without a credential.
Scenario ==
    /\ source = Table(ScenarioHeader, 1, 1)
    /\ api_key = ""

\* The output holds the columns cols with the one row of cells row.
OutputIs(cols, row) ==
    /\ clean.columns = cols
    /\ \A i \in DOMAIN cols : clean.data[cols[i]] = <<row[i]>>

\* C4 as claimed: the scenario's output is fullName, email, createdAt, mrr
\* with the row Jane Doe, jane@x.com, 2023-01-05, 120.0.
C4_Claimed ==
    (Scenario /\ Assembled) =>
        OutputIs(<<"fullName", "email", "createdAt", "mrr">>,
                 <<Str("Jane Doe"), Str("jane@x.com"),
                   Datetime(2023, 1, 5, 0, 0, 0), Float(120, 0)>>)

\* C4 amended: the scenario is classified and normalized without an error,
\* and its output is email, fullName, mrr, createdAt with the row
\* jane@x.com, Jane Doe, 120.0, 2023-01-05.
C4_Amended ==
    Scenario =>
        /\ error \notin {"llm_label", "normalize"}
        /\ Assembled =>
              OutputIs(<<"email", "fullName", "mrr", "createdAt">>,
                       <<Str("jane@x.com"), Str("Jane Doe"),
                         Float(120, 0), Datetime(2023, 1, 5, 0, 0, 0)>>)

\* C4 witness: the scenario has run to its end.
C4_Witness == Scenario /\ pc = "done"

\* C5 as claimed: normalize with a currency label never raises: for every
\* cell it returns a column that holds a float for that cell.
C5_Claimed ==
    (call.fn = "normalize" /\ call.returned) =>
        /\ call.ret.ok
        /\ Len(call.ret.values) = 1
        /\ call.ret.values[1].kind = "float"

\* C6 as claimed: when main has ended in a failure, nothing has been
\* persisted to either sink.
C6_Claimed ==
    pc = "failed" => ~csv_file.written /\ ~sql_table.written

\* C7 as claimed: a column whose fallback call failed has been given the
\* label "other" before the uniqueness loop, and no error of the call has
\* ended main.
C7_Claimed ==
    \A c \in llm_failed :
        /\ error # "llm_label"
        /\ \E k \in DOMAIN mapping : mapping[k].col = c /\ base[k] = "other"

\* The first pattern, in the order of PATTERNS, that matches the name.
FirstPattern(name) ==
    CHOOSE i \in DOMAIN PATTERNS :
        /\ Search(i, name)
        /\ \A j \in 1..(i - 1) : ~Search(j, name)

\* C8: for a name that some pattern matches, guess_label returns the label
\* of the first matching pattern, with the pattern as the reason, and
\* returns the same for any two columns of values.
C8_PatternWins ==
    (/\ call.fn = "guess_label"
     /\ call.returned
     /\ \E i \in DOMAIN PATTERNS : Search(i, call.name)) =>
        /\ call.ret.label = PATTERNS[FirstPattern(call.name)].label
        /\ call.ret.reason = "matched pattern " \o PATTERNS[FirstPattern(call.name)].pattern
        /\ call.other_ret = call.ret

\* C8 witness: a name matched by the plan pattern, called with a column that
\* holds an "@" and a column that holds a currency amount.
C8_Witness ==
    /\ call.fn = "guess_label"
    /\ call.returned
    /\ call.name = "Plan"
    /\ Str("a@b.c") \in Range(call.series)
    /\ Str("$5.00") \in Range(call.other)
    /\ call.ret.label = "plan"

\* C9: the columns are resolved in input order; a column whose candidate L
\* is not yet assigned keeps L, and otherwise gets L_n for the smallest
\* n >= 2 with L_n not yet assigned, found within one step per label
\* assigned; "Plan" then "plan_type" get plan then plan_2.
C9_SmallestSuffix ==
    /\ \A k \in DOMAIN mapping :
          LET before == {mapping[j].label : j \in 1..(k - 1)}
              L == base[k]
              F == mapping[k].label
          IN  /\ mapping[k].col = df.columns[k]
              /\ report[k].col = df.columns[k] /\ report[k].label = F
              /\ IF L \notin before THEN F = L
                 ELSE \E n \in 2..(Cardinality(before) + 2) :
                         /\ F = L \o "_" \o ToString(n)
                         /\ F \notin before
                         /\ \A m \in 2..(n - 1) : (L \o "_" \o ToString(m)) \in before
    /\ (Len(mapping) >= 2 /\ SubSeq(df.columns, 1, 2) = <<"Plan", "plan_type">>)
          => SubSeq(Labels, 1, 2) = <<"plan", "plan_2">>

\* C9 witness: a column got the suffix 3 because the suffix 2 was taken.
C9_Witness ==
    \E k \in DOMAIN mapping :
        /\ base[k] = "plan"
        /\ mapping[k].label = "plan_3"
        /\ "plan_2" \in Range(base)

\* C10 as claimed: every normalized column holds what the type rule of the
\* field it was classified as gives for its input column.
C10_Claimed ==
    \A k \in DOMAIN mapping :
        mapping[k].label \in DOMAIN clean.data =>
            LET r == normalize(base[k], df.data[mapping[k].col]) IN
            r.ok /\ clean.data[mapping[k].label] = r.values

====
